---- MODULE Spec2Model ----
(***************************************************************************)
(* A model of verify_misc_costs.py: the __main__ block (launch, new_page,  *)
(* try / except Exception / finally browser.close()) and the flow          *)
(* test_misc_costs(page) (ten page.route stubs, two navigations, the wait  *)
(* for the tab indicator with its bare except handler, the click, the two  *)
(* visibility assertions and the verification screenshot).                 *)
(*                                                                         *)
(* The frontend and the browser are the environment: every blocking        *)
(* Playwright call either completes or raises, and the loaded page issues  *)
(* network requests that are dispatched through the registered routes.     *)
(***************************************************************************)
EXTENDS Integers, Sequences, FiniteSets, TLC

----------------------------------------------------------------------------
(* Literals of the script *)

Origin == "http://localhost:5173"
RootURL == Origin \o "/"
ProductPageURL == Origin \o "/inventory/product/123"
TokenScript == "localStorage.setItem('token', 'mock_token')"
IndicatorSelector == "text=Pricing & Values"
IndicatorText == "Pricing & Values"
MiscCostsText == "Miscellaneous Costs"
HandlingLocator == "input[value='Handling']"
TimeoutPng == "/home/jules/verification/timeout.png"
VerificationPng == "/home/jules/verification/verification.png"

ProductBody == "{\n            \"id\": \"uuid-123\",\n            \"wooId\": 123,\n            \"name\": \"Test Product\",\n            \"sku\": \"SKU-123\",\n            \"price\": \"100.00\",\n            \"salePrice\": \"\",\n            \"stockStatus\": \"instock\",\n            \"cogs\": \"50.00\",\n            \"miscCosts\": [{\"amount\": 5, \"note\": \"Handling\"}, {\"amount\": 2.50, \"note\": \"Label\"}],\n            \"type\": \"simple\",\n            \"images\": []\n        }"

(* A compiled pattern r".*L1.*L2$" is the list of its literals L1, L2 (each *)
(* preceded by ".*") and whether it ends with the anchor "$".              *)
Pat(lits, anchored) == [lits |-> lits, anchored |-> anchored]

(* The ten page.route(...) calls, in the order the script makes them. *)
RouteTable ==
  << [pattern |-> Pat(<<"/api/products/123">>, TRUE), status |-> 200,
      body |-> ProductBody],
     [pattern |-> Pat(<<"/api/inventory/suppliers">>, FALSE), status |-> 200,
      body |-> "[]"],
     [pattern |-> Pat(<<"/api/auth/me">>, FALSE), status |-> 200,
      body |-> "{\"id\": \"user1\", \"email\": \"test@example.com\", \"fullName\": \"Test User\"}"],
     [pattern |-> Pat(<<"/api/accounts">>, TRUE), status |-> 200,
      body |-> "[{\"id\": \"acc1\", \"name\": \"Test Account\"}]"],
     [pattern |-> Pat(<<"/api/products/123/sales-history">>, FALSE), status |-> 200,
      body |-> "{\"sales\": [], \"total\": 0, \"page\": 1, \"limit\": 15, \"totalPages\": 1}"],
     [pattern |-> Pat(<<"/api/inventory/products/", "/bom">>, FALSE), status |-> 200,
      body |-> "{\"items\": []}"],
     [pattern |-> Pat(<<"/api/audits/PRODUCT/123">>, FALSE), status |-> 200,
      body |-> "[]"],
     [pattern |-> Pat(<<"/api/sync/status">>, FALSE), status |-> 200,
      body |-> "{\"active\": false}"],
     [pattern |-> Pat(<<"/api/notifications">>, FALSE), status |-> 200,
      body |-> "[]"],
     [pattern |-> Pat(<<"/api/chat/unread-count">>, FALSE), status |-> 200,
      body |-> "{\"count\": 0}"] >>

RouteIds == 1..Len(RouteTable)

----------------------------------------------------------------------------
(* Regular-expression matching of a request URL (re search semantics) *)

OccursAt(lit, url, i) ==
  /\ i + Len(lit) - 1 <= Len(url)
  /\ SubSeq(url, i, i + Len(lit) - 1) = lit

RECURSIVE MatchFrom(_, _, _, _)
MatchFrom(lits, anchored, url, i) ==
  IF lits = <<>>
    THEN (~anchored) \/ (i = Len(url) + 1)
    ELSE \E j \in i..(Len(url) + 1) :
           /\ OccursAt(Head(lits), url, j)
           /\ MatchFrom(Tail(lits), anchored, url, j + Len(Head(lits)))

(* The pattern compiled without its "$". *)
Matches_Unanchored(pattern, url) == MatchFrom(pattern.lits, FALSE, url, 1)

Matches(pattern, url) == MatchFrom(pattern.lits, pattern.anchored, url, 1)

----------------------------------------------------------------------------
(* Exceptions *)

NoExc == [kind |-> "none", step |-> "none"]
Exc(kind, step) == [kind |-> kind, step |-> step]

(* The classes caught by "except Exception". *)
ExceptionClass == {"TimeoutError", "Error", "AssertionError"}

(* What each Playwright call can raise: a navigation, a wait, a click and *)
(* a screenshot time out or fail, an expect raises AssertionError. print  *)
(* and browser.close() are taken to return normally.                      *)
FailKinds(step) ==
  CASE step \in {"launch", "goto_root", "goto_product", "wait_for_selector",
                 "click", "timeout_screenshot", "verification_screenshot"}
         -> {"TimeoutError", "Error"}
    [] step \in {"new_page", "route", "evaluate"} -> {"Error"}
    [] step \in {"expect_misc_costs", "expect_handling"} -> {"AssertionError"}

----------------------------------------------------------------------------
VARIABLES
  pc,          \* position of the script
  browser,     \* "none", "open" or "closed"
  closeCount,  \* how many times browser.close() has been executed
  routes,      \* route handlers registered on the page, in registration order
  calls,       \* page operations issued by the flow after the stubs, in order
  returned,    \* the steps that returned normally
  failed,      \* the steps that raised
  token,       \* localStorage 'token' of the origin
  files,       \* screenshot files written
  stdout,      \* lines printed
  exc,         \* the exception in flight
  waitExc,     \* the exception wait_for_selector produced
  propagated,  \* the exception that leaves the process uncaught
  response     \* the answer to the page's latest network request

vars == << pc, browser, closeCount, routes, calls, returned, failed, token,
           files, stdout, exc, waitExc, propagated, response >>

NoResponse == [url |-> "", route |-> 0, status |-> 0, body |-> ""]

Line(msg) == [msg |-> msg, e |-> NoExc]
ErrorLine(e) == [msg |-> "Error: ", e |-> e]
Call(op, arg) == [op |-> op, arg |-> arg]

Init ==
  /\ pc = "launch"
  /\ browser = "none"
  /\ closeCount = 0
  /\ routes = <<>>
  /\ calls = <<>>
  /\ returned = {}
  /\ failed = {}
  /\ token = "none"
  /\ files = {}
  /\ stdout = <<>>
  /\ exc = NoExc
  /\ waitExc = NoExc
  /\ propagated = NoExc
  /\ response = NoResponse

----------------------------------------------------------------------------
(* Network requests of the loaded page *)

BomIds == {"123", "456", "uuid-123"}

(* The URLs of the stubbed backend, one set per row of the route table. *)
TableURLs ==
  << {Origin \o "/api/products/123"},
     {Origin \o "/api/inventory/suppliers"},
     {Origin \o "/api/auth/me"},
     {Origin \o "/api/accounts"},
     {Origin \o "/api/products/123/sales-history"},
     {Origin \o "/api/inventory/products/" \o id \o "/bom" : id \in BomIds},
     {Origin \o "/api/audits/PRODUCT/123"},
     {Origin \o "/api/sync/status"},
     {Origin \o "/api/notifications"},
     {Origin \o "/api/chat/unread-count"} >>

(* Requests that belong to no row: the documents and a few neighbours. *)
OtherURLs ==
  { RootURL, ProductPageURL,
    Origin \o "/api/products/1234",
    Origin \o "/api/products/123?expand=1",
    Origin \o "/api/accounts/acc1",
    Origin \o "/api/notifications?unread=true" }

RequestURLs == UNION {TableURLs[r] : r \in RouteIds} \cup OtherURLs

Max(S) == CHOOSE x \in S : \A y \in S : y <= x

(* Positions in routes of the handlers whose pattern matches url. *)
MatchingRoutes(url) ==
  {i \in 1..Len(routes) : Matches(RouteTable[routes[i]].pattern, url)}

(* The handler registered last is tried first; route.fulfill answers the  *)
(* request. A request no handler matches goes on to the network.          *)
Respond(url) ==
  IF MatchingRoutes(url) = {}
    THEN [url |-> url, route |-> 0, status |-> 0, body |-> "network"]
    ELSE LET r == routes[Max(MatchingRoutes(url))]
         IN [url |-> url, route |-> r, status |-> RouteTable[r].status,
             body |-> RouteTable[r].body]

PageLoading == \E i \in 1..Len(calls) : calls[i].op = "goto"

Request ==
  /\ PageLoading
  /\ browser = "open"
  /\ pc # "done"
  /\ \E url \in RequestURLs : response' = Respond(url)
  /\ UNCHANGED << pc, browser, closeCount, routes, calls, returned, failed,
                  token, files, stdout, exc, waitExc, propagated >>

----------------------------------------------------------------------------
(* Outcomes of a blocking call *)

Issue(msgs, call) ==
  /\ stdout' = stdout \o msgs
  /\ calls' = Append(calls, call)

Returns(step, nextPc) ==
  /\ pc' = nextPc
  /\ returned' = returned \cup {step}
  /\ UNCHANGED << exc, failed >>

Raises(step, handlerPc) ==
  \E k \in FailKinds(step) :
    /\ exc' = Exc(k, step)
    /\ failed' = failed \cup {step}
    /\ pc' = handlerPc
    /\ UNCHANGED returned

----------------------------------------------------------------------------
(* __main__ *)

Launch ==
  /\ pc = "launch"
  /\ \/ /\ browser' = "open"
        /\ pc' = "new_page"
        /\ returned' = returned \cup {"launch"}
        /\ UNCHANGED << failed, propagated >>
     \/ \E k \in FailKinds("launch") :
          /\ propagated' = Exc(k, "launch")
          /\ failed' = failed \cup {"launch"}
          /\ pc' = "exit"
          /\ UNCHANGED << browser, returned >>
  /\ UNCHANGED << closeCount, routes, calls, token, files, stdout, exc,
                  waitExc, response >>

NewPage ==
  /\ pc = "new_page"
  /\ \/ /\ pc' = "try"
        /\ returned' = returned \cup {"new_page"}
        /\ UNCHANGED << failed, propagated >>
     \/ \E k \in FailKinds("new_page") :
          /\ propagated' = Exc(k, "new_page")
          /\ failed' = failed \cup {"new_page"}
          /\ pc' = "exit"
          /\ UNCHANGED returned
  /\ UNCHANGED << browser, closeCount, routes, calls, token, files, stdout,
                  exc, waitExc, response >>

(* The handler prints the error and raises it again. *)
ExceptHandler_Reraises ==
  /\ pc = "except"
  /\ exc.kind \in ExceptionClass
  /\ stdout' = Append(stdout, ErrorLine(exc))
  /\ pc' = "finally"
  /\ UNCHANGED << browser, closeCount, routes, calls, returned, failed, token,
                  files, exc, waitExc, propagated, response >>

ExceptHandler ==
  /\ pc = "except"
  /\ exc.kind \in ExceptionClass
  /\ stdout' = Append(stdout, ErrorLine(exc))
  /\ exc' = NoExc
  /\ pc' = "finally"
  /\ UNCHANGED << browser, closeCount, routes, calls, returned, failed, token,
                  files, waitExc, propagated, response >>

(* browser.close() in an else branch of the try instead of its finally. *)
FinallyClose_OnlyOnSuccess ==
  /\ pc = "finally"
  /\ IF failed = {}
       THEN closeCount' = closeCount + 1 /\ browser' = "closed"
       ELSE UNCHANGED << closeCount, browser >>
  /\ propagated' = exc
  /\ pc' = "exit"
  /\ UNCHANGED << routes, calls, returned, failed, token, files, stdout, exc,
                  waitExc, response >>

FinallyClose ==
  /\ pc = "finally"
  /\ closeCount' = closeCount + 1
  /\ browser' = "closed"
  /\ propagated' = exc
  /\ pc' = "exit"
  /\ UNCHANGED << routes, calls, returned, failed, token, files, stdout, exc,
                  waitExc, response >>

ExitPlaywright ==
  /\ pc = "exit"
  /\ pc' = "done"
  /\ UNCHANGED << browser, closeCount, routes, calls, returned, failed, token,
                  files, stdout, exc, waitExc, propagated, response >>

----------------------------------------------------------------------------
(* test_misc_costs(page) *)

EnterFlow ==
  /\ pc = "try"
  /\ stdout' = Append(stdout, Line("Setting up mocks..."))
  /\ pc' = "route"
  /\ UNCHANGED << browser, closeCount, routes, calls, returned, failed, token,
                  files, exc, waitExc, propagated, response >>

(* The first navigation issued before the last stub is registered. *)
AfterRoute_Early(registered) ==
  IF Len(registered) >= Len(RouteTable) - 1 THEN "goto_root" ELSE "route"

AfterRoute(registered) ==
  IF Len(registered) = Len(RouteTable) THEN "goto_root" ELSE "route"

PageRoute ==
  /\ pc = "route"
  /\ \/ /\ routes' = Append(routes, Len(routes) + 1)
        /\ pc' = AfterRoute(routes')
        /\ UNCHANGED << exc, failed, returned >>
     \/ /\ Raises("route", "except")
        /\ UNCHANGED routes
  /\ UNCHANGED << browser, closeCount, calls, token, files, stdout, waitExc,
                  propagated, response >>

(* The product page requested right after the first navigation. *)
GotoRoot_SkipsToken ==
  /\ pc = "goto_root"
  /\ Issue(<<Line("Navigating to page...")>>, Call("goto", RootURL))
  /\ \/ Returns("goto_root", "goto_product")
     \/ Raises("goto_root", "except")
  /\ UNCHANGED << browser, closeCount, routes, token, files, waitExc,
                  propagated, response >>

GotoRoot ==
  /\ pc = "goto_root"
  /\ Issue(<<Line("Navigating to page...")>>, Call("goto", RootURL))
  /\ \/ Returns("goto_root", "evaluate")
     \/ Raises("goto_root", "except")
  /\ UNCHANGED << browser, closeCount, routes, token, files, waitExc,
                  propagated, response >>

Evaluate ==
  /\ pc = "evaluate"
  /\ Issue(<<>>, Call("evaluate", TokenScript))
  /\ \/ /\ Returns("evaluate", "goto_product")
        /\ token' = "mock_token"
     \/ /\ Raises("evaluate", "except")
        /\ UNCHANGED token
  /\ UNCHANGED << browser, closeCount, routes, files, waitExc, propagated,
                  response >>

GotoProduct ==
  /\ pc = "goto_product"
  /\ Issue(<<>>, Call("goto", ProductPageURL))
  /\ \/ Returns("goto_product", "wait_for_selector")
     \/ Raises("goto_product", "except")
  /\ UNCHANGED << browser, closeCount, routes, token, files, waitExc,
                  propagated, response >>

WaitForSelector ==
  /\ pc = "wait_for_selector"
  /\ Issue(<<Line("Waiting for page load...")>>,
           Call("wait_for_selector", IndicatorSelector))
  /\ \/ /\ Returns("wait_for_selector", "click")
        /\ UNCHANGED waitExc
     \/ /\ Raises("wait_for_selector", "timeout_screenshot")
        /\ waitExc' = exc'
  /\ UNCHANGED << browser, closeCount, routes, token, files, propagated,
                  response >>

(* The handler without its raise: the flow goes on after the screenshot. *)
TimeoutScreenshot_NoReraise ==
  /\ pc = "timeout_screenshot"
  /\ Issue(<<Line("Timeout waiting for Pricing tab. Taking screenshot.")>>,
           Call("screenshot", TimeoutPng))
  /\ \/ /\ files' = files \cup {TimeoutPng}
        /\ pc' = "click"
        /\ returned' = returned \cup {"timeout_screenshot"}
        /\ exc' = NoExc
        /\ UNCHANGED failed
     \/ /\ Raises("timeout_screenshot", "except")
        /\ UNCHANGED files
  /\ UNCHANGED << browser, closeCount, routes, token, waitExc, propagated,
                  response >>

(* The handler's screenshot written to the success path. *)
TimeoutScreenshot_WrongPath ==
  /\ pc = "timeout_screenshot"
  /\ Issue(<<Line("Timeout waiting for Pricing tab. Taking screenshot.")>>,
           Call("screenshot", VerificationPng))
  /\ \/ /\ files' = files \cup {VerificationPng}
        /\ Returns("timeout_screenshot", "except")
     \/ /\ Raises("timeout_screenshot", "except")
        /\ UNCHANGED files
  /\ UNCHANGED << browser, closeCount, routes, token, waitExc, propagated,
                  response >>

(* The bare except handler of the wait: print, screenshot, raise. *)
TimeoutScreenshot ==
  /\ pc = "timeout_screenshot"
  /\ Issue(<<Line("Timeout waiting for Pricing tab. Taking screenshot.")>>,
           Call("screenshot", TimeoutPng))
  /\ \/ /\ files' = files \cup {TimeoutPng}
        /\ Returns("timeout_screenshot", "except")
     \/ /\ Raises("timeout_screenshot", "except")
        /\ UNCHANGED files
  /\ UNCHANGED << browser, closeCount, routes, token, waitExc, propagated,
                  response >>

Click ==
  /\ pc = "click"
  /\ Issue(<<Line("Clicking Pricing tab...")>>, Call("click", IndicatorText))
  /\ \/ Returns("click", "expect_misc_costs")
     \/ Raises("click", "except")
  /\ UNCHANGED << browser, closeCount, routes, token, files, waitExc,
                  propagated, response >>

ExpectMiscCosts ==
  /\ pc = "expect_misc_costs"
  /\ Issue(<<Line("Checking for Miscellaneous Costs...")>>,
           Call("expect_visible", MiscCostsText))
  /\ \/ Returns("expect_misc_costs", "expect_handling")
     \/ Raises("expect_misc_costs", "except")
  /\ UNCHANGED << browser, closeCount, routes, token, files, waitExc,
                  propagated, response >>

ExpectHandling ==
  /\ pc = "expect_handling"
  /\ Issue(<<>>, Call("expect_visible", HandlingLocator))
  /\ \/ Returns("expect_handling", "verification_screenshot")
     \/ Raises("expect_handling", "except")
  /\ UNCHANGED << browser, closeCount, routes, token, files, waitExc,
                  propagated, response >>

(* The success screenshot written to the failure path. *)
VerificationScreenshot_WrongPath ==
  /\ pc = "verification_screenshot"
  /\ calls' = Append(calls, Call("screenshot", TimeoutPng))
  /\ \/ /\ files' = files \cup {TimeoutPng}
        /\ stdout' = stdout \o << Line("Taking verification screenshot..."),
                                  Line("Done.") >>
        /\ Returns("verification_screenshot", "finally")
     \/ /\ Raises("verification_screenshot", "except")
        /\ stdout' = Append(stdout, Line("Taking verification screenshot..."))
        /\ UNCHANGED files
  /\ UNCHANGED << browser, closeCount, routes, token, waitExc, propagated,
                  response >>

VerificationScreenshot ==
  /\ pc = "verification_screenshot"
  /\ calls' = Append(calls, Call("screenshot", VerificationPng))
  /\ \/ /\ files' = files \cup {VerificationPng}
        /\ stdout' = stdout \o << Line("Taking verification screenshot..."),
                                  Line("Done.") >>
        /\ Returns("verification_screenshot", "finally")
     \/ /\ Raises("verification_screenshot", "except")
        /\ stdout' = Append(stdout, Line("Taking verification screenshot..."))
        /\ UNCHANGED files
  /\ UNCHANGED << browser, closeCount, routes, token, waitExc, propagated,
                  response >>

----------------------------------------------------------------------------
Next ==
  \/ Launch
  \/ NewPage
  \/ EnterFlow
  \/ PageRoute
  \/ GotoRoot
  \/ Evaluate
  \/ GotoProduct
  \/ WaitForSelector
  \/ TimeoutScreenshot
  \/ Click
  \/ ExpectMiscCosts
  \/ ExpectHandling
  \/ VerificationScreenshot
  \/ ExceptHandler
  \/ FinallyClose
  \/ ExitPlaywright
  \/ Request

Spec == Init /\ [][Next]_vars

(* Every blocking call returns or raises within its timeout, and the      *)
(* interpreter runs the next statement: the script's own steps are never  *)
(* postponed forever by the page's network requests.                      *)
Script ==
  \/ Launch
  \/ NewPage
  \/ EnterFlow
  \/ PageRoute
  \/ GotoRoot
  \/ Evaluate
  \/ GotoProduct
  \/ WaitForSelector
  \/ TimeoutScreenshot
  \/ Click
  \/ ExpectMiscCosts
  \/ ExpectHandling
  \/ VerificationScreenshot
  \/ ExceptHandler
  \/ FinallyClose
  \/ ExitPlaywright

FairSpec == Spec /\ WF_vars(Script)

----------------------------------------------------------------------------
(* Properties *)

Range(f) == {f[i] : i \in DOMAIN f}
IsPrefix(s, t) == Len(s) <= Len(t) /\ SubSeq(t, 1, Len(s)) = s

(* test_misc_costs(page) has been called. *)
FlowEntered == stdout # <<>>
(* test_misc_costs(page) has returned or raised. *)
FlowLeft == pc \in {"except", "finally", "exit", "done"}
ErrorPrinted == \E i \in 1..Len(stdout) : stdout[i].msg = "Error: "
StepsAfterWait ==
  { c \in Range(calls) : \/ c.op \in {"click", "expect_visible"}
                         \/ c = Call("screenshot", VerificationPng) }

(* C1: on every path on which the flow is entered, browser.close() is      *)
(* executed exactly once, never twice, and only after the flow has        *)
(* returned or raised.                                                     *)
C1_ClosedExactlyOnce ==
  /\ closeCount \in {0, 1}
  /\ (FlowEntered /\ pc \in {"exit", "done"}) => closeCount = 1
  /\ closeCount = 1 => (FlowEntered /\ FlowLeft /\ browser = "closed")

C1_Witness ==
  /\ pc = "done"
  /\ closeCount = 1
  /\ "click" \in failed

(* C2, as claimed: when the wait for the indicator times out, timeout.png  *)
(* is written and the error the flow raises is the very error the wait     *)
(* produced; no step after the wait is executed.                           *)
C2_Original ==
  (pc = "except" /\ waitExc.kind = "TimeoutError") =>
     /\ TimeoutPng \in files
     /\ exc = waitExc
     /\ StepsAfterWait = {}

(* C2, amended: when the wait for the indicator times out, the handler     *)
(* attempts the screenshot timeout.png; if it is written the flow raises   *)
(* the very error the wait produced, and if the screenshot call raises,    *)
(* timeout.png is not written and the screenshot's error is raised in its  *)
(* place. In both cases no step after the wait is executed.                *)
C2_TimeoutReraised ==
  (pc = "except" /\ waitExc.kind = "TimeoutError") =>
     /\ StepsAfterWait = {}
     /\ calls[Len(calls)] = Call("screenshot", TimeoutPng)
     /\ IF "timeout_screenshot" \in failed
          THEN TimeoutPng \notin files /\ exc.step = "timeout_screenshot"
          ELSE TimeoutPng \in files /\ exc = waitExc

C2_Witness ==
  /\ pc = "except"
  /\ waitExc.kind = "TimeoutError"
  /\ TimeoutPng \in files
  /\ exc = waitExc

(* C3: when every step of the run succeeds, the run ends with no exception *)
(* raised or propagated, verification.png written, timeout.png not         *)
(* written and no "Error:" line printed.                                   *)
C3_SuccessPath ==
  (pc = "done" /\ failed = {}) =>
     /\ exc = NoExc
     /\ propagated = NoExc
     /\ VerificationPng \in files
     /\ TimeoutPng \notin files
     /\ ~ErrorPrinted
     /\ stdout[Len(stdout)] = Line("Done.")

C3_Witness ==
  /\ pc = "done"
  /\ failed = {}
  /\ VerificationPng \in files

(* C4: when the assertion on the input with value 'Handling' fails, the    *)
(* top-level handler prints the error and does not let it leave the        *)
(* process, the browser is closed after that, and verification.png is not  *)
(* written.                                                                *)
C4_AssertionReported ==
  ("expect_handling" \in failed) =>
     /\ VerificationPng \notin files
     /\ propagated = NoExc
     /\ closeCount = 1 =>
          ErrorLine(Exc("AssertionError", "expect_handling")) \in Range(stdout)
     /\ pc = "done" => (closeCount = 1 /\ browser = "closed" /\ exc = NoExc)

C4_Witness ==
  /\ pc = "done"
  /\ "expect_handling" \in failed
  /\ browser = "closed"

(* C5: once the browser has been launched, the script never ends without   *)
(* having executed browser.close().                                        *)
C5_ClosedAfterLaunch ==
  (pc = "done" /\ "launch" \in returned) => closeCount >= 1

(* C6: from every state in which the browser is running, the run           *)
(* eventually reaches the state 'browser closed, script finished'.         *)
C6_Terminates ==
  (browser = "open") ~> (pc = "done" /\ browser = "closed")

(* C7, as claimed: at the end of a run timeout.png is written if and only  *)
(* if the wait failed, verification.png if and only if the wait, the       *)
(* click and both assertions succeeded, never both, and a failure of a     *)
(* navigation, the token injection, the click or an assertion writes no    *)
(* screenshot.                                                             *)
C7_Original ==
  pc = "done" =>
     /\ TimeoutPng \in files <=> "wait_for_selector" \in failed
     /\ VerificationPng \in files <=>
          {"wait_for_selector", "click", "expect_misc_costs",
           "expect_handling"} \subseteq returned
     /\ ~(TimeoutPng \in files /\ VerificationPng \in files)
     /\ failed \cap {"goto_root", "evaluate", "goto_product", "click",
                     "expect_misc_costs", "expect_handling"} # {} => files = {}

(* C7, amended: timeout.png is written if and only if the wait failed and  *)
(* the handler's screenshot call succeeded, verification.png if and only   *)
(* if the wait, the click and both assertions succeeded and the final      *)
(* screenshot call succeeded; never both, and a failure of a navigation,   *)
(* the token injection, the click or an assertion writes no screenshot.    *)
C7_Screenshots ==
  /\ TimeoutPng \in files <=>
       ("wait_for_selector" \in failed /\ "timeout_screenshot" \in returned)
  /\ VerificationPng \in files <=>
       {"wait_for_selector", "click", "expect_misc_costs", "expect_handling",
        "verification_screenshot"} \subseteq returned
  /\ ~(TimeoutPng \in files /\ VerificationPng \in files)
  /\ failed \cap {"goto_root", "evaluate", "goto_product", "click",
                  "expect_misc_costs", "expect_handling"} # {} => files = {}
  /\ files \subseteq {TimeoutPng, VerificationPng}

C7_Witness ==
  /\ pc = "done"
  /\ "wait_for_selector" \in failed
  /\ files = {TimeoutPng}

(* C8: each of the ten stubs is registered exactly once, and whenever a    *)
(* navigation has been issued all ten are registered, so that no request   *)
(* for a stubbed URL reaches the network.                                  *)
C8_StubsBeforeNavigation ==
  /\ \A i, j \in 1..Len(routes) : routes[i] = routes[j] => i = j
  /\ PageLoading => (Range(routes) = RouteIds /\ Len(routes) = Len(RouteTable))
  /\ \A r \in RouteIds : response.url \in TableURLs[r] => response.route # 0

C8_Witness ==
  /\ PageLoading
  /\ Len(routes) = Len(RouteTable)
  /\ response.route = Len(RouteTable)

FlowOrder ==
  << Call("goto", RootURL), Call("evaluate", TokenScript),
     Call("goto", ProductPageURL),
     Call("wait_for_selector", IndicatorSelector),
     Call("click", IndicatorText), Call("expect_visible", MiscCostsText),
     Call("expect_visible", HandlingLocator) >>

(* C9: the page operations are issued in the fixed order root navigation,  *)
(* token injection, product navigation, wait, click, assertions; the       *)
(* product page is never requested before the token is stored, and after   *)
(* a failed first navigation neither the injection nor the second          *)
(* navigation happens.                                                     *)
C9_FixedOrder ==
  /\ \/ IsPrefix(calls, FlowOrder)
     \/ calls = FlowOrder \o << Call("screenshot", VerificationPng) >>
     \/ /\ "wait_for_selector" \in failed
        /\ calls = SubSeq(FlowOrder, 1, Len(calls) - 1)
                     \o << Call("screenshot", TimeoutPng) >>
  /\ Call("goto", ProductPageURL) \in Range(calls) => token = "mock_token"
  /\ "goto_root" \in failed =>
       (token = "none" /\ calls = << Call("goto", RootURL) >>)

C9_Witness ==
  /\ pc = "done"
  /\ IsPrefix(FlowOrder, calls)
  /\ token = "mock_token"

(* C10: with the ten stubs registered, each URL of the table is matched by *)
(* exactly one registered pattern, that of its own row, and a request for  *)
(* it is fulfilled with status 200 and that row's body; sales-history is   *)
(* never answered with the product fixture.                                *)
C10_Dispatch ==
  /\ Len(routes) = Len(RouteTable) =>
       \A r \in RouteIds : \A u \in TableURLs[r] :
         /\ Cardinality(MatchingRoutes(u)) = 1
         /\ \A i \in MatchingRoutes(u) : routes[i] = r
  /\ \A r \in RouteIds :
       response.url \in TableURLs[r] =>
         /\ response.route = r
         /\ response.status = 200
         /\ response.body = RouteTable[r].body
  /\ response.url = Origin \o "/api/products/123/sales-history" =>
       response.body # ProductBody
  /\ response.url = Origin \o "/api/products/123" =>
       response.body = ProductBody

C10_Witness ==
  /\ response.url = Origin \o "/api/products/123/sales-history"
  /\ response.status = 200
  /\ response.body = RouteTable[5].body

====
